---- MODULE Spec2Model ----
(***************************************************************************)
(* Model of three pieces of deeplabcut.pose_estimation_pytorch:            *)
(*   config/utils.py        replace_default_values, update_config          *)
(*   models/predictors/top_down_prediction.py   TopDownPredictor           *)
(*   apis/train.py          train, train_network                           *)
(*                                                                         *)
(* Python objects live on a heap (a sequence of dicts and lists indexed by *)
(* address) so that copying, aliasing and in-place mutation are visible.   *)
(* Python strings are sequences of one-character strings, so that strip,   *)
(* split, isdigit and int are computed and not assumed.                    *)
(***************************************************************************)
EXTENDS Integers, Sequences, FiniteSets, TLC

VARIABLES
    op,                \* which call was made last ("" before any call)
    heap0,             \* Python heap when the call was entered
    heap,              \* Python heap now
    config,            \* argument `config` (a Python value)
    updates,           \* argument `updates` of update_config
    updated_values,    \* placeholder name -> supplied value
    result,            \* returned value
    err,               \* "" or the exception the call ended in
    mutated,           \* TRUE once the caller has mutated the result
    theap0,            \* tensor storage when forward was entered
    theap,             \* tensor storage now
    format_bbox,       \* TopDownPredictor.format_bbox
    bboxes,            \* address of the bboxes argument
    keypoints_cropped, \* address of the keypoints_cropped argument
    poses,             \* address of the returned "poses" tensor
    pc,                \* position inside train_network
    args,              \* arguments of train_network
    cfg0,              \* model configuration as loaded from disk
    model_cfg,         \* loader.model_cfg
    runs               \* training runs started so far

vars == <<op, heap0, heap, config, updates, updated_values, result, err, mutated,
          theap0, theap, format_bbox, bboxes, keypoints_cropped, poses,
          pc, args, cfg0, model_cfg, runs>>

cfgVars == <<op, heap0, heap, config, updates, updated_values, result, err, mutated>>
tdVars == <<theap0, theap, format_bbox, bboxes, keypoints_cropped, poses>>
trainVars == <<pc, args, cfg0, model_cfg, runs>>

(***************************************************************************)
(* Bounds                                                                  *)
(***************************************************************************)
MaxDepth == 2      \* nesting depth of the configurations tried
MaxValue == 2      \* largest integer supplied for a placeholder
MaxFactor == 2     \* largest literal F written in a leaf
MaxBatch == 2      \* largest batch size of the tensors tried
MaxAnimals == 2    \* largest number of instances per image
MaxJoints == 2     \* largest number of joints per instance
MaxCoord == 1      \* largest base coordinate of a box corner
MaxSetting == 2    \* largest base setting of the model configurations tried

(***************************************************************************)
(* Python values and heap objects                                          *)
(***************************************************************************)
None == [t |-> "none", n |-> 0, s |-> <<>>]
IntV(i) == [t |-> "int", n |-> i, s |-> <<>>]
StrV(str) == [t |-> "str", n |-> 0, s |-> str]
Ref(a) == [t |-> "ref", n |-> a, s |-> <<>>]
TupleV(i) == [t |-> "tuple", n |-> i, s |-> <<>>]

Item(k, v) == [k |-> k, v |-> v]
ListObj(items) == [t |-> "list", items |-> items]

IsRef(v) == v.t = "ref"
IsDict(h, v) == IsRef(v) /\ h[v.n].t = "dict"
IsList(h, v) == IsRef(v) /\ h[v.n].t = "list"

\* the addresses directly referenced by an object
Children(obj) == {obj.items[i].v.n : i \in {j \in 1..Len(obj.items) : IsRef(obj.items[j].v)}}

RECURSIVE ReachFrom(_, _, _)
ReachFrom(h, todo, seen) ==
    IF todo = {} THEN seen
    ELSE LET a == CHOOSE x \in todo : TRUE
             new == Children(h[a]) \ (seen \cup {a})
         IN ReachFrom(h, (todo \ {a}) \cup new, seen \cup {a})

\* the mutable objects reachable from a value
Reach(h, v) == IF IsRef(v) THEN ReachFrom(h, {v.n}, {}) ELSE {}

(***************************************************************************)
(* str.strip, str.split(" "), str.isdigit, int(str)                        *)
(***************************************************************************)
Whitespace == {" ", "\t"}
Digits == <<"0", "1", "2", "3", "4", "5", "6", "7", "8", "9">>

RECURSIVE LStrip(_)
LStrip(s) == IF s # <<>> /\ Head(s) \in Whitespace THEN LStrip(Tail(s)) ELSE s

RECURSIVE RStrip(_)
RStrip(s) ==
    IF s # <<>> /\ s[Len(s)] \in Whitespace
    THEN RStrip(SubSeq(s, 1, Len(s) - 1)) ELSE s

Strip(s) == RStrip(LStrip(s))

RECURSIVE SplitFrom(_, _, _)
SplitFrom(s, cur, acc) ==
    IF s = <<>> THEN Append(acc, cur)
    ELSE IF Head(s) = " " THEN SplitFrom(Tail(s), <<>>, Append(acc, cur))
    ELSE SplitFrom(Tail(s), Append(cur, Head(s)), acc)

Split(s) == SplitFrom(s, <<>>, <<>>)

IsDigit(s) == s # <<>> /\ \A i \in 1..Len(s) : \E d \in 1..10 : Digits[d] = s[i]

DigitValue(c) == (CHOOSE d \in 1..10 : Digits[d] = c) - 1

RECURSIVE ParseInt(_, _)
ParseInt(s, acc) ==
    IF s = <<>> THEN acc ELSE ParseInt(Tail(s), 10 * acc + DigitValue(Head(s)))

Int_(s) == ParseInt(s, 0)

(***************************************************************************)
(* dict / list primitives and copy.deepcopy                                *)
(***************************************************************************)
HasKey(obj, k) == \E i \in 1..Len(obj.items) : obj.items[i].k = k

KeyIndex(obj, k) == CHOOSE i \in 1..Len(obj.items) : obj.items[i].k = k

GetItem(obj, k) == obj.items[KeyIndex(obj, k)].v

\* obj[k] = v : overwrite in place, or insert at the end
SetItem(obj, k, v) ==
    IF HasKey(obj, k)
    THEN [obj EXCEPT !.items[KeyIndex(obj, k)].v = v]
    ELSE [obj EXCEPT !.items = Append(@, Item(k, v))]

RECURSIVE DeepCopy(_, _)
RECURSIVE CopyItems(_, _, _)
CopyItems(h, items, acc) ==
    IF items = <<>> THEN [h |-> h, items |-> acc]
    ELSE LET r == DeepCopy(h, Head(items).v)
         IN CopyItems(r.h, Tail(items), Append(acc, Item(Head(items).k, r.v)))

\* a deepcopy that returns its argument (the copy forgotten)
DeepCopyAlias(h, v) == [h |-> h, v |-> v]

\* copy.deepcopy: immutable values are returned as they are, a dict or a
\* list is rebuilt at a fresh address from deep copies of its items
DeepCopy(h, v) ==
    IF ~IsRef(v) THEN [h |-> h, v |-> v]
    ELSE LET c == CopyItems(h, h[v.n].items, <<>>)
             h2 == Append(c.h, [t |-> h[v.n].t, items |-> c.items])
         IN [h |-> h2, v |-> Ref(Len(h2))]

(***************************************************************************)
(* update_config                                                           *)
(***************************************************************************)
RECURSIVE update_config(_, _, _, _)
RECURSIVE UpdateItems(_, _, _)
\* the loop `for k, v in updates.items()` over the dict at address c
UpdateItems(h, c, uitems) ==
    IF uitems = <<>> THEN h
    ELSE LET k == Head(uitems).k
             v == Head(uitems).v
         IN IF HasKey(h[c], k) /\ IsDict(h, GetItem(h[c], k)) /\ IsDict(h, v)
            THEN LET r == update_config(h, GetItem(h[c], k), v, FALSE)
                 IN UpdateItems([r.h EXCEPT ![c] = SetItem(@, k, r.v)], c, Tail(uitems))
            ELSE LET d == DeepCopy(h, v)
                 IN UpdateItems([d.h EXCEPT ![c] = SetItem(@, k, d.v)], c, Tail(uitems))

update_config(h, cfg, upd, copy_original) ==
    LET c == IF copy_original THEN DeepCopy(h, cfg) ELSE [h |-> h, v |-> cfg]
    IN [h |-> UpdateItems(c.h, c.v.n, c.h[upd.n].items), v |-> c.v]

(***************************************************************************)
(* replace_default_values                                                  *)
(***************************************************************************)
NoDefault == "ValueError: no default value for this variable"
FactorNotInt == "ValueError: F must be an integer"
UnknownOperator == "ValueError: Unknown operator"
CannotParse == "ValueError: cannot parse"
ConfigType == "ValueError: Config to update must be dict or list"
TypeError == "TypeError: can only concatenate list to list"

IsValueError(e) == e \in {NoDefault, FactorNotInt, UnknownOperator, CannotParse, ConfigType}

Ok(h, v) == [h |-> h, v |-> v, err |-> ""]
Raise(h, e) == [h |-> h, v |-> None, err |-> e]

\* `name in updated_values.keys()` and `updated_values[name]`
HasName(uv, name) == \E i \in 1..Len(uv) : uv[i].k = name
Lookup(uv, name) == uv[CHOOSE i \in 1..Len(uv) : uv[i].k = name].v

RECURSIVE Repeat(_, _)
Repeat(items, n) == IF n = 0 THEN <<>> ELSE items \o Repeat(items, n - 1)

\* updated_values[var_name] + factor
PyAdd(h, val, factor) ==
    IF val.t = "int" THEN Ok(h, IntV(val.n + factor)) ELSE Raise(h, TypeError)

\* the "x" branch computing a sum
PyMulAsAdd(h, val, factor) ==
    IF val.t = "int" THEN Ok(h, IntV(val.n + factor)) ELSE Raise(h, TypeError)

\* updated_values[var_name] * factor : a list is repeated into a new list
PyMul(h, val, factor) ==
    IF val.t = "int" THEN Ok(h, IntV(val.n * factor))
    ELSE LET h2 == Append(h, ListObj(Repeat(h[val.n].items, factor)))
         IN Ok(h2, Ref(Len(h2)))

get_updated_value(h, variable, uv) ==
    LET var_parts == Split(Strip(variable))
        var_name == var_parts[1]
    IN IF Lookup(uv, var_name) = None THEN Raise(h, NoDefault)
       ELSE IF Len(var_parts) = 1 THEN Ok(h, Lookup(uv, var_name))
       ELSE IF Len(var_parts) = 3 THEN
            LET operator == var_parts[2]
                factor == var_parts[3]
            IN IF ~IsDigit(factor) THEN Raise(h, FactorNotInt)
               ELSE IF operator = <<"+">> THEN PyAdd(h, Lookup(uv, var_name), Int_(factor))
               ELSE IF operator = <<"x">> THEN PyMul(h, Lookup(uv, var_name), Int_(factor))
               ELSE Raise(h, UnknownOperator)
       ELSE Raise(h, CannotParse)

\* the type test with the list case forgotten
IsDictOnly(h, v) == IsDict(h, v)

\* isinstance(config, dict) or isinstance(config, list)
IsDictOrList(h, v) == IsDict(h, v) \/ IsList(h, v)

RECURSIVE replace_default_values(_, _, _)
RECURSIVE ReplaceItems(_, _, _, _)
\* the loop `for k in keys_to_update` over the container at address a
ReplaceItems(h, a, i, uv) ==
    IF i > Len(h[a].items) THEN Ok(h, Ref(a))
    ELSE LET cur == h[a].items[i].v
         IN IF IsDictOrList(h, cur)
            THEN LET r == replace_default_values(h, cur, uv)
                 IN IF r.err # "" THEN r
                    ELSE ReplaceItems([r.h EXCEPT ![a].items[i].v = r.v], a, i + 1, uv)
            ELSE IF cur.t = "str" /\ HasName(uv, Split(Strip(cur.s))[1])
            THEN LET g == get_updated_value(h, cur.s, uv)
                 IN IF g.err # "" THEN g
                    ELSE ReplaceItems([g.h EXCEPT ![a].items[i].v = g.v], a, i + 1, uv)
            ELSE ReplaceItems(h, a, i + 1, uv)

replace_default_values(h, cfg, uv) ==
    LET d == DeepCopy(h, cfg)
    IN IF IsDictOrList(d.h, d.v) THEN ReplaceItems(d.h, d.v.n, 1, uv)
       ELSE Raise(d.h, ConfigType)

(***************************************************************************)
(* Inputs of the configuration calls                                       *)
(***************************************************************************)
num_bodyparts == <<"n", "u", "m", "_", "b", "o", "d", "y", "p", "a", "r", "t", "s">>
num_individuals == <<"n", "u", "m", "_", "i", "n", "d", "i", "v", "i", "d", "u", "a", "l", "s">>
backbone_output_channels == <<"b", "a", "c", "k", "b", "o", "n", "e", "_", "o", "u", "t", "p", "u", "t", "_", "c", "h", "a", "n", "n", "e", "l", "s">>
paf_graph == <<"p", "a", "f", "_", "g", "r", "a", "p", "h">>
other == <<"o", "t", "h", "e", "r">>

Sp == <<" ">>

\* the decimal literal of n (n < 100)
Literal(n) ==
    IF n < 10 THEN <<Digits[n + 1]>>
    ELSE <<Digits[(n \div 10) + 1], Digits[(n % 10) + 1]>>

Factors == (0..MaxFactor) \cup {12}
FactorTexts == {Literal(f) : f \in Factors} \cup {<<"0", "2">>, <<"k">>, <<"-", "1">>}
Operators == {<<"+">>, <<"x">>, <<"-">>}

Expressions(name) ==
    {name}
    \cup {name \o Sp \o o \o Sp \o f : o \in Operators, f \in FactorTexts}
    \cup {Sp \o name \o <<"\t">>, name \o Sp \o Sp \o <<"x">> \o Sp \o <<"2">>,
          name \o Sp \o <<"x">>, <<"x">> \o Sp \o name, name \o <<"_", "x">>}

\* leaves tried at the deepest level, and above it
DeepLeaves ==
    {StrV(e) : e \in Expressions(num_bodyparts)}
    \cup {StrV(paf_graph), StrV(paf_graph \o Sp \o <<"x">> \o Sp \o <<"2">>),
          StrV(paf_graph \o Sp \o <<"+">> \o Sp \o <<"1">>),
          StrV(num_individuals), StrV(backbone_output_channels \o Sp \o <<"x">> \o Sp \o <<"2">>),
          StrV(other), IntV(7), None, TupleV(1)}
ShallowLeaves == {StrV(num_individuals), StrV(paf_graph \o Sp \o <<"+">> \o Sp \o <<"1">>)}

Kinds == {"dict", "list"}

\* a container of the given kind holding a leaf (key lk) and, when child is
\* a reference, a nested container (key ck), in the given order
Level(kind, leaf, child, leafFirst, lk, ck) ==
    LET l == Item(IF kind = "dict" THEN lk ELSE "", leaf)
        c == Item(IF kind = "dict" THEN ck ELSE "", child)
    IN [t |-> kind,
        items |-> IF ~IsRef(child) THEN <<l>>
                  ELSE IF leafFirst THEN <<l, c>> ELSE <<c, l>>]

\* a heap segment at addresses base+1 .. base+Len(kinds): the container at
\* base+i holds leaves[i] and the container at base+i+1
Chain(base, kinds, leaves, leafFirst, lk, ck) ==
    [i \in 1..Len(kinds) |->
        Level(kinds[i], leaves[i],
              IF i < Len(kinds) THEN Ref(base + i + 1) ELSE None,
              leafFirst, lk, ck)]

Depths == 1..MaxDepth
KindSeqs(d) == [1..d -> Kinds]
LeafSeqs(d, shallow, deep) ==
    {ls \in [1..d -> shallow \cup deep] :
        /\ ls[d] \in deep
        /\ \A i \in 1..(d - 1) : ls[i] \in shallow}

Values == {None} \cup {IntV(i) : i \in 0..MaxValue}

UpdatedValues(nb, ni, boc, kw) ==
    << Item(num_bodyparts, nb), Item(num_individuals, ni),
       Item(backbone_output_channels, boc) >> \o kw

\* configurations handed to replace_default_values: nested dicts and lists,
\* and values that are neither
ConfigInputs ==
    {[h |-> Chain(0, kinds, leaves, lf, "a", "b"), v |-> Ref(1)] :
        <<kinds, leaves, lf>> \in UNION {KindSeqs(d) \X LeafSeqs(d, ShallowLeaves, DeepLeaves) \X BOOLEAN : d \in Depths}}
    \cup {[h |-> <<>>, v |-> x] : x \in {IntV(7), StrV(num_bodyparts), None, TupleV(1)}}

\* the extra keyword placeholder paf_graph: not passed, passed as None, or
\* passed as a list (stored at address a)
KwModes == {"absent", "none", "list"}
Kwargs(mode, a) ==
    CASE mode = "absent" -> <<>>
      [] mode = "none" -> <<Item(paf_graph, None)>>
      [] mode = "list" -> <<Item(paf_graph, Ref(a))>>

\* configurations handed to update_config
MergeLeaves == {IntV(1), StrV(other)}
UpdateLeaves == {IntV(2), None}
DictFirst(d) == {ks \in KindSeqs(d) : ks[1] = "dict"}
MergeInputs ==
    UNION {DictFirst(d) \X LeafSeqs(d, MergeLeaves, MergeLeaves) : d \in Depths}
UpdateInputs ==
    UNION {DictFirst(d) \X LeafSeqs(d, UpdateLeaves, UpdateLeaves) : d \in Depths}
UpdateKeys == {<<"a", "b">>, <<"c", "b">>, <<"b", "a">>, <<"c", "d">>}

(***************************************************************************)
(* Calls of the configuration functions                                    *)
(***************************************************************************)
InitCfg ==
    /\ op = ""
    /\ heap0 = <<>>
    /\ heap = <<>>
    /\ config = None
    /\ updates = None
    /\ updated_values = <<>>
    /\ result = None
    /\ err = ""
    /\ mutated = FALSE

\* replace_default_values(config, num_bodyparts, num_individuals,
\*                        backbone_output_channels, **kwargs)
ReplaceDefaultValues ==
    /\ op = ""
    /\ \E ci \in ConfigInputs, nb \in Values, rest \in {None, IntV(MaxValue)}, mode \in KwModes :
        LET h0 == IF mode = "list"
                  THEN Append(ci.h, ListObj(<<Item("", TupleV(1))>>))
                  ELSE ci.h
            uv == UpdatedValues(nb, rest, rest, Kwargs(mode, Len(h0)))
            r == replace_default_values(h0, ci.v, uv)
        IN /\ heap0' = h0
           /\ heap' = r.h
           /\ config' = ci.v
           /\ updated_values' = uv
           /\ result' = r.v
           /\ err' = r.err
    /\ op' = "replace_default_values"
    /\ UNCHANGED <<updates, mutated>>

\* update_config(config, updates, copy_original)
UpdateConfig ==
    /\ op = ""
    /\ \E ci \in MergeInputs, ui \in UpdateInputs, lf \in BOOLEAN, uk \in UpdateKeys, copy_original \in BOOLEAN :
        LET n == Len(ci[1])
            h0 == Chain(0, ci[1], ci[2], lf, "a", "b") \o Chain(n, ui[1], ui[2], lf, uk[1], uk[2])
            r == update_config(h0, Ref(1), Ref(n + 1), copy_original)
        IN /\ heap0' = h0
           /\ heap' = r.h
           /\ config' = Ref(1)
           /\ updates' = Ref(n + 1)
           /\ result' = r.v
           /\ op' = IF copy_original THEN "update_config" ELSE "update_config(copy_original=False)"
    /\ err' = ""
    /\ UNCHANGED <<updated_values, mutated>>

\* the caller later mutates a dict or list of the returned configuration:
\* it sets a new key (appends to a list) or overwrites the first entry
MutateResult ==
    /\ op # ""
    /\ err = ""
    /\ ~mutated
    /\ \E a \in Reach(heap, result), overwrite \in BOOLEAN :
        /\ overwrite => heap[a].items # <<>>
        /\ heap' = [heap EXCEPT ![a] =
                IF overwrite THEN [@ EXCEPT !.items[1].v = IntV(99)]
                ELSE [@ EXCEPT !.items = Append(@, Item(IF heap[a].t = "dict" THEN "new" ELSE "", IntV(99)))]]
    /\ mutated' = TRUE
    /\ UNCHANGED <<op, heap0, config, updates, updated_values, result, err>>

InitTD ==
    /\ theap0 = <<>>
    /\ theap = <<>>
    /\ format_bbox = ""
    /\ bboxes = 0
    /\ keypoints_cropped = 0
    /\ poses = 0

InitTrain ==
    /\ pc = "idle"
    /\ args = <<>>
    /\ cfg0 = <<>>
    /\ model_cfg = <<>>
    /\ runs = <<>>

Init == InitCfg /\ InitTD /\ InitTrain

NextCfg ==
    \/ ReplaceDefaultValues /\ UNCHANGED <<tdVars, trainVars>>
    \/ UpdateConfig /\ UNCHANGED <<tdVars, trainVars>>
    \/ MutateResult /\ UNCHANGED <<tdVars, trainVars>>

SpecCfg == Init /\ [][NextCfg]_vars

(***************************************************************************)
(* Properties of the configuration functions                               *)
(***************************************************************************)
PlaceholderNames == {num_bodyparts, num_individuals, backbone_output_channels, paf_graph}

\* some string leaf of the configuration has, as its first space-separated
\* token, a placeholder name whose supplied value is None
ReferencesMissingValue(h, v, uv) ==
    \E a \in Reach(h, v) : \E i \in 1..Len(h[a].items) :
        LET leaf == h[a].items[i].v
        IN /\ leaf.t = "str"
           /\ HasName(uv, Split(leaf.s)[1])
           /\ Lookup(uv, Split(leaf.s)[1]) = None

\* C1: whenever the configuration (a dict or list, at any depth) has a string
\* leaf whose first token is a placeholder supplied as None, the call to
\* replace_default_values ends in ValueError and returns no configuration.
C1_MissingValueRaisesValueError ==
    (op = "replace_default_values" /\ ReferencesMissingValue(heap0, config, updated_values))
        => (IsValueError(err) /\ result = None)

\* the leaves of the container at a0 (before the call) and of the container
\* at a (returned), walked in parallel, obey the placeholder arithmetic
RECURSIVE ArithmeticAt(_, _, _, _, _)
ArithmeticAt(h0, a0, h, a, uv) ==
    /\ Len(h[a].items) = Len(h0[a0].items)
    /\ \A i \in 1..Len(h0[a0].items) :
        LET old == h0[a0].items[i].v
            new == h[a].items[i].v
        IN IF IsRef(old) THEN IsRef(new) /\ ArithmeticAt(h0, old.n, h, new.n, uv)
           ELSE \A P \in PlaceholderNames, F \in Factors :
                (HasName(uv, P) /\ Lookup(uv, P).t = "int") =>
                    /\ old = StrV(P) => new = Lookup(uv, P)
                    /\ old = StrV(P \o Sp \o <<"x">> \o Sp \o Literal(F))
                            => new = IntV(Lookup(uv, P).n * F)
                    /\ old = StrV(P \o Sp \o <<"+">> \o Sp \o Literal(F))
                            => new = IntV(Lookup(uv, P).n + F)

\* C2: in the configuration returned by replace_default_values, a leaf 'P' is
\* replaced by the integer v supplied for P, a leaf 'P x F' by v * F and a
\* leaf 'P + F' by v + F, for every non-negative integer literal F.
C2_PlaceholderArithmetic ==
    (op = "replace_default_values" /\ err = "" /\ ~mutated)
        => ArithmeticAt(heap0, config.n, heap, result.n, updated_values)

\* a nested leaf 'num_bodyparts x 12' was replaced by 12 * MaxValue
C2_Witness ==
    /\ op = "replace_default_values" /\ err = "" /\ ~mutated
    /\ Lookup(updated_values, num_bodyparts) = IntV(MaxValue)
    /\ \E a \in Reach(heap0, config) \ {config.n} : \E i \in 1..Len(heap0[a].items) :
        heap0[a].items[i].v = StrV(num_bodyparts \o Sp \o <<"x">> \o Sp \o <<"1", "2">>)
    /\ \E b \in Reach(heap, result) \ {result.n} : \E j \in 1..Len(heap[b].items) :
        heap[b].items[j].v = IntV(12 * MaxValue)

ArgumentObjects == Reach(heap0, config) \cup Reach(heap0, updates)
KeywordObjects ==
    UNION {Reach(heap0, updated_values[i].v) : i \in 1..Len(updated_values)}

\* C3: update_config (copy_original=True) and replace_default_values leave
\* config and updates as they were, at every depth, also when the call
\* raises; the result shares no dict or list with them, so that a later
\* mutation of the result changes neither.
C3_FunctionalCopyAndMerge ==
    op \in {"replace_default_values", "update_config"} =>
        /\ \A a \in ArgumentObjects : heap[a] = heap0[a]
        /\ ~mutated => \A a \in KeywordObjects : heap[a] = heap0[a]
        /\ Reach(heap, result) \cap ArgumentObjects = {}

\* update_config merged a nested dict into a nested dict of config, and the
\* caller then mutated the result
C3_Witness ==
    /\ op = "update_config" /\ mutated
    /\ HasKey(heap0[config.n], "b") /\ IsDict(heap0, GetItem(heap0[config.n], "b"))
    /\ HasKey(heap0[updates.n], "b") /\ IsDict(heap0, GetItem(heap0[updates.n], "b"))
    /\ \E a \in Reach(heap, result) \ {result.n} : heap[a].items[1].v = IntV(99)

\* C5: replace_default_values raises 'Config to update must be dict or list'
\* exactly when the config it is called with is neither a dict nor a list; no
\* nested configuration of dicts, lists and scalar leaves triggers it.
C5_ConfigTypeChecked ==
    op = "replace_default_values" => (err = ConfigType <=> config.t # "ref")

\* a string was passed as the config and the call raised the type error;
C5_Witness ==
    op = "replace_default_values" /\ config.t = "str" /\ err = ConfigType

(***************************************************************************)
(* TopDownPredictor                                                        *)
(*                                                                         *)
(* A tensor is a record [shape, data] stored at an address of theap, so    *)
(* that clone, views and in-place assignment are visible.  Its elements    *)
(* are floats; an element holds the integer n for the float n / 256.  The  *)
(* inputs tried are whole numbers of pixels (and scores that are whole     *)
(* multiples of 1/256), for which the float operations below are exact.    *)
(***************************************************************************)
CropSize == 256

\* the element for the whole number n
Px(n) == n * CropSize

\* float division by 256, and the product of two elements
Div256(p) == p \div CropSize
Times(p, q) == (p * q) \div CropSize

\* tensor.clone(): a new tensor with the same elements
Clone(th, a) == [th |-> Append(th, th[a]), a |-> Len(th) + 1]

\* a conversion that hands back its argument
NoConversion(th, a) == [th |-> th, a |-> a]

\* TopDownPredictor._convert_bbox_to_coco
convert_bbox_to_coco(th, a) ==
    LET c == Clone(th, a)
        \* coco_bboxes[:, :, 2] -= coco_bboxes[:, :, 0]
        th1 == [c.th EXCEPT ![c.a].data =
                    [b \in DOMAIN @ |-> [i \in DOMAIN @[b] |->
                        [@[b][i] EXCEPT ![3] = @ - c.th[c.a].data[b][i][1]]]]]
        \* coco_bboxes[:, :, 3] -= coco_bboxes[:, :, 1]
        th2 == [th1 EXCEPT ![c.a].data =
                    [b \in DOMAIN @ |-> [i \in DOMAIN @[b] |->
                        [@[b][i] EXCEPT ![4] = @ - th1[c.a].data[b][i][2]]]]]
    IN [th |-> th2, a |-> c.a]

\* TopDownPredictor.forward
forward(th, fmt, bb, kp) ==
    LET conv == IF fmt # "coco" THEN convert_bbox_to_coco(th, bb)
                ELSE [th |-> th, a |-> bb]
        num_joints == conv.th[kp].shape[3]
        new_kpts == Clone(conv.th, kp)
        box == new_kpts.th[conv.a].data
        x_corners == [b \in DOMAIN box |-> [i \in DOMAIN box[b] |-> [j \in 1..num_joints |-> box[b][i][1]]]]
        y_corners == [b \in DOMAIN box |-> [i \in DOMAIN box[b] |-> [j \in 1..num_joints |-> box[b][i][2]]]]
        scales_x == [b \in DOMAIN box |-> [i \in DOMAIN box[b] |-> [j \in 1..num_joints |-> Div256(box[b][i][3])]]]
        scales_y == [b \in DOMAIN box |-> [i \in DOMAIN box[b] |-> [j \in 1..num_joints |-> Div256(box[b][i][4])]]]
        \* new_kpts[:, :, :, 0] = scales_x * new_kpts[:, :, :, 0] + x_corners
        th1 == [new_kpts.th EXCEPT ![new_kpts.a].data =
                    [b \in DOMAIN @ |-> [i \in DOMAIN @[b] |-> [j \in DOMAIN @[b][i] |->
                        [@[b][i][j] EXCEPT ![1] = Times(scales_x[b][i][j], @) + x_corners[b][i][j]]]]]]
        \* new_kpts[:, :, :, 1] = scales_y * new_kpts[:, :, :, 1] + y_corners
        th2 == [th1 EXCEPT ![new_kpts.a].data =
                    [b \in DOMAIN @ |-> [i \in DOMAIN @[b] |-> [j \in DOMAIN @[b][i] |->
                        [@[b][i][j] EXCEPT ![2] = Times(scales_y[b][i][j], @) + y_corners[b][i][j]]]]]]
    IN [th |-> th2, poses |-> new_kpts.a]

\* input tensors: every instance has its own box and every joint its own
\* keypoint, all derived from a few base numbers
Sizes == {0, 64, CropSize}
BoxTensor(B, N, x, y, w, h) ==
    [shape |-> <<B, N, 4>>,
     data |-> [b \in 1..B |-> [i \in 1..N |->
        <<Px(x + 10 * b), Px(y + 20 * i), Px(x + 10 * b + w * i), Px(y + 20 * i + h * b)>>]]]

KeypointCoords == {0, 4}
Scores == {0, 128, CropSize}
KeypointTensor(B, N, J, kx, ky, sc) ==
    [shape |-> <<B, N, J, 3>>,
     data |-> [b \in 1..B |-> [i \in 1..N |-> [j \in 1..J |->
        <<Px(kx + 8 * j + b), Px(ky + 16 * i * j), sc + j>>]]]]

Formats == {"xyxy", "coco", "xywh"}

\* predictor = TopDownPredictor(format_bbox); predictor(bboxes, keypoints_cropped)
Forward ==
    /\ poses = 0
    /\ \E B \in 1..MaxBatch, N \in 1..MaxAnimals, J \in 1..MaxJoints,
          x \in 0..MaxCoord, y \in 0..MaxCoord, w \in Sizes, h \in Sizes,
          kx \in KeypointCoords, ky \in KeypointCoords, sc \in Scores, fmt \in Formats :
        LET th0 == <<BoxTensor(B, N, x, y, w, h), KeypointTensor(B, N, J, kx, ky, sc)>>
            r == forward(th0, fmt, 1, 2)
        IN /\ theap0' = th0
           /\ theap' = r.th
           /\ format_bbox' = fmt
           /\ bboxes' = 1
           /\ keypoints_cropped' = 2
           /\ poses' = r.poses

NextTD == Forward /\ UNCHANGED <<cfgVars, trainVars>>

SpecTD == Init /\ [][NextTD]_vars

\* the box of instance i of image b in coco form (x, y, w, h)
CocoBox(b, i) ==
    LET box == theap0[bboxes].data[b][i]
    IN IF format_bbox = "coco" THEN box
       ELSE <<box[1], box[2], box[3] - box[1], box[4] - box[2]>>

\* C4: forward returns, for every image b, instance i and joint j,
\* x' = (w / 256) * kx + x and y' = (h / 256) * ky + y with (x, y, w, h) the
\* box in coco form (converted from xyxy unless format_bbox is 'coco'), the
\* score unchanged and the shape of the keypoint input; bboxes and
\* keypoints_cropped are not modified.
C4_KeypointsMappedToImageFrame ==
    poses # 0 =>
        /\ theap[poses].shape = theap0[keypoints_cropped].shape
        /\ DOMAIN theap[poses].data = DOMAIN theap0[keypoints_cropped].data
        /\ \A b \in DOMAIN theap0[keypoints_cropped].data :
           \A i \in DOMAIN theap0[keypoints_cropped].data[b] :
           \A j \in DOMAIN theap0[keypoints_cropped].data[b][i] :
                LET k == theap0[keypoints_cropped].data[b][i][j]
                    q == theap[poses].data[b][i][j]
                    c == CocoBox(b, i)
                IN \* elements are numerators over 256 and w, h whole numbers:
                   \* x' - x = (w / 256) * kx  iff  256 * (q[1] - c[1]) = w * k[1]
                   /\ c[3] % CropSize = 0 /\ c[4] % CropSize = 0
                   /\ CropSize * (q[1] - c[1]) = (c[3] \div CropSize) * k[1]
                   /\ CropSize * (q[2] - c[2]) = (c[4] \div CropSize) * k[2]
                   /\ q[3] = k[3]
        /\ theap[bboxes] = theap0[bboxes]
        /\ theap[keypoints_cropped] = theap0[keypoints_cropped]

\* an xyxy batch with two images, two instances and two joints, whose boxes
\* are 64 wide or more, was mapped and some keypoint moved
C4_Witness ==
    /\ poses # 0
    /\ format_bbox = "xyxy"
    /\ theap0[keypoints_cropped].shape = <<2, 2, 2, 3>>
    /\ CocoBox(1, 1)[3] = Px(64)
    /\ theap[poses].data[2][2][2][1] # theap0[keypoints_cropped].data[2][2][2][1]

(***************************************************************************)
(* train and train_network                                                 *)
(*                                                                         *)
(* A configuration is a nested record.  An optional argument is <<>> for   *)
(* None and <<n>> for the integer n.  run_config is passed by reference:   *)
(* train returns the dict it was given, as it left it.                     *)
(***************************************************************************)
IsNone(x) == x = <<>>

RunConfig(bs, ep, di, se, ms, wi) ==
    [train_settings |-> [batch_size |-> bs, epochs |-> ep, display_iters |-> di, weight_init |-> wi],
     runner |-> [snapshots |-> [save_epochs |-> se, max_snapshots |-> ms]]]

\* the model configurations tried: all settings differ from each other
ModelConfigs ==
    {[method |-> m,
      train_settings |-> RunConfig(s, s + 10, s + 20, s + 30, s + 40, wi).train_settings,
      runner |-> RunConfig(s, s + 10, s + 20, s + 30, s + 40, wi).runner,
      detector |-> RunConfig(s + 50, de, s + 60, s + 70, s + 80, "None")] :
        m \in {"bu", "td"}, s \in 1..MaxSetting, de \in 0..MaxSetting,
        wi \in {"None", "weights", "memory_replay"}}

\* entries of the configuration that **kwargs may set, and the kwargs tried
KwargPaths ==
    {<<"train_settings", "batch_size">>, <<"train_settings", "epochs">>,
     <<"train_settings", "display_iters">>, <<"runner", "snapshots", "save_epochs">>,
     <<"runner", "snapshots", "max_snapshots">>,
     <<"detector", "runner", "snapshots", "max_snapshots">>}
KwargsTried == {<<>>} \cup {<<[path |-> p, value |-> 100]>> : p \in KwargPaths}

Optional(n) == {<<>>, <<n>>}

ArgsTried ==
    [batch_size : Optional(101), epochs : Optional(102), save_epochs : Optional(103),
     display_iters : Optional(104), max_snapshots_to_keep : Optional(105),
     kwargs : KwargsTried]

\* cfg with the entry at path p set to v
SetPath(cfg, p, v) ==
    CASE Len(p) = 2 -> [cfg EXCEPT ![p[1]][p[2]] = v]
      [] Len(p) = 3 -> [cfg EXCEPT ![p[1]][p[2]][p[3]] = v]
      [] Len(p) = 4 -> [cfg EXCEPT ![p[1]][p[2]][p[3]][p[4]] = v]

GetPath(cfg, p) ==
    CASE Len(p) = 2 -> cfg[p[1]][p[2]]
      [] Len(p) = 3 -> cfg[p[1]][p[2]][p[3]]
      [] Len(p) = 4 -> cfg[p[1]][p[2]][p[3]][p[4]]

\* loader.update_model_cfg(kwargs): the entries of kwargs merged into the
\* model configuration (update_config on nested dicts)
RECURSIVE update_model_cfg(_, _)
update_model_cfg(cfg, kw) ==
    IF kw = <<>> THEN cfg
    ELSE update_model_cfg(SetPath(cfg, Head(kw).path, Head(kw).value), Tail(kw))

\* overrides that store save_epochs as the number of epochs
OverridesMisplaced(cfg, a) ==
    LET c1 == IF ~IsNone(a.batch_size)
              THEN [cfg EXCEPT !.train_settings.batch_size = a.batch_size[1]] ELSE cfg
        c2 == IF ~IsNone(a.save_epochs)
              THEN [c1 EXCEPT !.train_settings.epochs = a.save_epochs[1]] ELSE c1
    IN c2

\* train_network: the four `if ... is not None` overrides of loader.model_cfg
Overrides(cfg, a) ==
    LET c1 == IF ~IsNone(a.batch_size)
              THEN [cfg EXCEPT !.train_settings.batch_size = a.batch_size[1]] ELSE cfg
        c2 == IF ~IsNone(a.epochs)
              THEN [c1 EXCEPT !.train_settings.epochs = a.epochs[1]] ELSE c1
        c3 == IF ~IsNone(a.save_epochs)
              THEN [c2 EXCEPT !.runner.snapshots.save_epochs = a.save_epochs[1]] ELSE c2
        c4 == IF ~IsNone(a.display_iters)
              THEN [c3 EXCEPT !.train_settings.display_iters = a.display_iters[1]] ELSE c3
    IN c4

\* the training run started by train: what the model, the runner, the data
\* loader and runner.fit were given
Run(task, rc) ==
    [task |-> task,
     pretrained |-> rc.train_settings.weight_init = "None",
     runner_config |-> rc.runner,
     batch_size |-> rc.train_settings.batch_size,
     epochs |-> rc.train_settings.epochs,
     display_iters |-> rc.train_settings.display_iters]

\* a train that leaves the configured max_snapshots in place
TrainKeepsConfigured(run_config, task, max_snapshots_to_keep) ==
    [run_config |-> run_config, run |-> Run(task, run_config)]

\* train(loader, run_config, task, ..., max_snapshots_to_keep)
train(run_config, task, max_snapshots_to_keep) ==
    LET rc == IF ~IsNone(max_snapshots_to_keep)
              THEN [run_config EXCEPT !.runner.snapshots.max_snapshots = max_snapshots_to_keep[1]]
              ELSE run_config
    IN [run_config |-> rc, run |-> Run(task, rc)]

\* train_network is called; DLCLoader reads the model configuration (with
\* memory replay, COCOLoader reads it again from the same file)
LoadConfig ==
    /\ pc = "idle"
    /\ \E c \in ModelConfigs, a \in ArgsTried :
        /\ cfg0' = c
        /\ model_cfg' = c
        /\ args' = a
    /\ pc' = "loaded"
    /\ UNCHANGED runs

\* the overrides, then loader.update_model_cfg(kwargs)
Configure ==
    /\ pc = "loaded"
    /\ model_cfg' = update_model_cfg(Overrides(model_cfg, args), args.kwargs)
    /\ pc' = "configured"
    /\ UNCHANGED <<args, cfg0, runs>>

TrainsDetector(cfg) == cfg.method = "td" /\ cfg.detector.train_settings.epochs > 0

\* the detector is trained first, for a top-down model with detector epochs
TrainDetector ==
    /\ pc = "configured"
    /\ TrainsDetector(model_cfg)
    /\ LET detector_run_config ==
                [model_cfg.detector EXCEPT
                    !.train_settings.weight_init = model_cfg.train_settings.weight_init]
           r == train(detector_run_config, "detect", args.max_snapshots_to_keep)
       IN /\ model_cfg' = [model_cfg EXCEPT !.detector = r.run_config]
          /\ runs' = Append(runs, r.run)
    /\ pc' = "pose"
    /\ UNCHANGED <<args, cfg0>>

SkipDetector ==
    /\ pc = "configured"
    /\ ~TrainsDetector(model_cfg)
    /\ pc' = "pose"
    /\ UNCHANGED <<args, cfg0, model_cfg, runs>>

\* the pose model is trained
TrainPose ==
    /\ pc = "pose"
    /\ LET r == train(model_cfg, model_cfg.method, args.max_snapshots_to_keep)
       IN /\ model_cfg' = r.run_config
          /\ runs' = Append(runs, r.run)
    /\ pc' = "done"
    /\ UNCHANGED <<args, cfg0>>

NextTrain ==
    \/ LoadConfig /\ UNCHANGED <<cfgVars, tdVars>>
    \/ Configure /\ UNCHANGED <<cfgVars, tdVars>>
    \/ TrainDetector /\ UNCHANGED <<cfgVars, tdVars>>
    \/ SkipDetector /\ UNCHANGED <<cfgVars, tdVars>>
    \/ TrainPose /\ UNCHANGED <<cfgVars, tdVars>>

SpecTrain == Init /\ [][NextTrain]_vars

(***************************************************************************)
(* Properties of train_network                                             *)
(***************************************************************************)
SetByKwargs(p) == \E i \in 1..Len(args.kwargs) : args.kwargs[i].path = p
KwargValue(p) == args.kwargs[CHOOSE i \in 1..Len(args.kwargs) : args.kwargs[i].path = p].value

\* the entry at path p of the configuration as loaded and merged with kwargs
Configured(p) == IF SetByKwargs(p) THEN KwargValue(p) ELSE GetPath(cfg0, p)

\* where a run's own configuration sits in the model configuration
Own(run, p) == IF run.task = "detect" THEN <<"detector">> \o p ELSE p

\* C6: with max_snapshots_to_keep not None, every training run started
\* (detector and pose) builds its runner from a runner config whose
\* snapshots.max_snapshots is max_snapshots_to_keep; with None, each run
\* keeps the max_snapshots of its own configuration.
C6_MaxSnapshotsToKeep ==
    /\ \A i \in 1..Len(runs) :
        runs[i].runner_config.snapshots.max_snapshots =
            IF ~IsNone(args.max_snapshots_to_keep) THEN args.max_snapshots_to_keep[1]
            ELSE Configured(Own(runs[i], <<"runner", "snapshots", "max_snapshots">>))
    /\ pc = "done" =>
        /\ runs[Len(runs)].task = cfg0.method
        /\ Len(runs) = IF cfg0.method = "td" /\ cfg0.detector.train_settings.epochs > 0 THEN 2 ELSE 1
        /\ Len(runs) = 2 => runs[1].task = "detect"

\* a detector run and a pose run were started with max_snapshots_to_keep set
C6_Witness ==
    /\ pc = "done" /\ Len(runs) = 2
    /\ ~IsNone(args.max_snapshots_to_keep)
    /\ runs[1].runner_config.snapshots.max_snapshots # cfg0.detector.runner.snapshots.max_snapshots

\* what the pose run used for the four overridable settings
PoseRunUsed(r) ==
    [batch_size |-> r.batch_size, epochs |-> r.epochs,
     save_epochs |-> r.runner_config.snapshots.save_epochs,
     display_iters |-> r.display_iters]

SettingPath(name) ==
    IF name = "save_epochs" THEN <<"runner", "snapshots", "save_epochs">>
    ELSE <<"train_settings", name>>

SettingNames == {"batch_size", "epochs", "save_epochs", "display_iters"}

====
